---- MODULE Spec2Model ----
(***************************************************************************)
(* Model of the webwire-go client's connection life cycle:                 *)
(* client/connect.go (Client.connect, its reader goroutine and the        *)
(* reconnect goroutine it spawns), together with the collaborators that    *)
(* connect.go calls: close/disable, tryAutoconnect, the request tracker    *)
(* used by requestSessionRestoration and request, and handleMessage.       *)
(***************************************************************************)
EXTENDS Naturals, Sequences, FiniteSets

(* ------------------------------ bounds -------------------------------- *)

\* successful dials (= connections, = reader goroutines) in one behaviour
MaxDials == 2
\* connect attempts one tryAutoconnect makes before it gives up
MaxAttempts == 1
\* user request() calls in one behaviour
MaxReqs == 2
\* sessions the server creates in one behaviour
MaxSessions == 1
\* frames in flight from the server to the client
MaxInbox == 2
\* disable() calls in one behaviour
MaxDisables == 1

(* ------------------------------ domains ------------------------------- *)

Gens == 1..MaxDials
Keys == 1..MaxSessions
NoSession == 0

\* threads that execute connect(): the user's and one reconnect goroutine
\* per reader goroutine
User == <<"u", 0>>
Reconn(i) == <<"a", i>>
Threads == {User} \cup {Reconn(i) : i \in Gens}
NoThread == <<"none", 0>>

\* request identifiers: one session restoration request per dial, and the
\* user's requests
RestoreId(g) == <<"r", g>>
UserId(n) == <<"u", n>>
ReqIds == {RestoreId(g) : g \in Gens} \cup {UserId(n) : n \in 1..MaxReqs}
NoReq == <<"none", 0>>

StatDisabled == "Disabled"
StatDisconnected == "Disconnected"
StatConnected == "Connected"

VARIABLES
  status,       \* clt.status
  connectLock,  \* clt.connectLock: the thread holding it, or NoThread
  session,      \* clt.session: its key, or NoSession (nil)
  autoconnect,  \* clt.autoconnect
  connGen,      \* number of successful clt.conn.Dial calls so far
  sock,         \* per dialed connection: "none", "open", "failed" (broken
                \* by the network), "closedD" (closed by disable),
                \* "closedR" (closed by a reader's deferred close),
                \* "replaced" (the socket was dialed again)
  inbox,        \* frames the server sent on the current connection
  cpc,          \* per thread: its position in connect()
  cres,         \* per thread: what its last connect() returned
  rpc,          \* per reader goroutine: its position
  rgen,         \* per reader goroutine: the connection its Read is on
  rmsg,         \* per reader goroutine: the frame it is handling
  apc,          \* per reconnect goroutine: its position
  attempts,     \* per reconnect goroutine: connect attempts made
  dpc,          \* the position of the thread calling disable()
  disables,     \* disable() calls so far
  req,          \* the request tracker's entries and their outcomes
  srvGot,       \* requests the server received and has not answered
  srvSess,      \* the session the server attached to the connection
  srvHow,       \* how the connection got that session: "none", "created"
                \* on it, or "restored" on it from an earlier connection
  srvClosed,    \* sessions the server closed
  nextKey,      \* the next session key the server creates
  nextReq,      \* the next user request number
  hookDisc,     \* per reader goroutine: OnDisconnected calls
  hookClosed,   \* per session key: OnSessionClosed calls
  sessionLock,  \* clt.sessionLock: the thread holding it, or NoThread
  afterDisable  \* disable() has completed and the user has not called
                \* connect() since

vars == <<status, connectLock, session, autoconnect, connGen, sock, inbox,
          cpc, cres, rpc, rgen, rmsg, apc, attempts, dpc, disables, req,
          srvGot, srvSess, srvHow, srvClosed, nextKey, nextReq, hookDisc,
          hookClosed, sessionLock, afterDisable>>

connVars == <<connGen, sock, inbox>>
disVars == <<dpc, disables>>
connectVars == <<cpc, cres, connectLock>>
readerVars == <<rpc, rgen, rmsg, hookDisc>>
reconnVars == <<apc, attempts>>
serverVars == <<srvGot, srvSess, srvHow, srvClosed, nextKey>>
sessVars == <<session, hookClosed, sessionLock>>

NoMsg == [type |-> "none", id |-> NoReq, ok |-> FALSE, key |-> NoSession]
\* a request tracker entry and its outcome: st is "unused", "pending",
\* "replied", "failed" (an error reply), "error" (the write failed) or
\* "timeout"; key is the session key
\* a restoration request carries, val and from the payload and the id of
\* the reply that completed it, n the number of completions, lost whether
\* no connection was open any more when it timed out
NoEntry == [st |-> "unused", key |-> NoSession, val |-> NoSession,
            from |-> NoReq, n |-> 0, lost |-> FALSE]

\* the connection clt.conn currently refers to is usable
ConnOpen == connGen > 0 /\ sock[connGen] = "open"

Init ==
  /\ status = StatDisconnected
  /\ connectLock = NoThread
  /\ session = NoSession
  /\ autoconnect \in BOOLEAN
  /\ connGen = 0
  /\ sock = [g \in Gens |-> "none"]
  /\ inbox = <<>>
  /\ cpc = [t \in Threads |-> "idle"]
  /\ cres = [t \in Threads |-> "none"]
  /\ rpc = [g \in Gens |-> "none"]
  /\ rgen = [g \in Gens |-> 0]
  /\ rmsg = [g \in Gens |-> NoMsg]
  /\ apc = [g \in Gens |-> "none"]
  /\ attempts = [g \in Gens |-> 0]
  /\ dpc = "idle"
  /\ disables = 0
  /\ req = [id \in ReqIds |-> NoEntry]
  /\ srvGot = {}
  /\ srvSess = NoSession
  /\ srvHow = "none"
  /\ srvClosed = {}
  /\ nextKey = 1
  /\ nextReq = 1
  /\ hookDisc = [g \in Gens |-> 0]
  /\ hookClosed = [k \in Keys |-> 0]
  /\ sessionLock = NoThread
  /\ afterDisable = FALSE


(* ----------------------------- transport ------------------------------ *)

\* clt.conn.Dial succeeding: clt.conn now refers to a fresh connection; what
\* was in flight on the previous one is gone
Dialed ==
  /\ connGen' = connGen + 1
  /\ sock' = [g \in Gens |->
                IF g = connGen + 1 THEN "open"
                ELSE IF sock[g] = "open" THEN "replaced" ELSE sock[g]]
  /\ inbox' = <<>>
  /\ srvGot' = {}
  /\ srvSess' = NoSession
  /\ srvHow' = "none"

\* clt.conn.Close by `by`: closes whatever connection clt.conn refers to now
CloseSock(by) ==
  IF ConnOpen THEN [sock EXCEPT ![connGen] = by] ELSE sock

\* a frame written to clt.conn reaches the server only on an open connection
Written(id) == IF ConnOpen THEN srvGot \cup {id} ELSE srvGot

(* ------------------------------ connect ------------------------------- *)

\* tryAutoconnect, once its connect() returned r: done on success; a dial
\* error is retried unless the client was disabled meanwhile or the attempts
\* are used up; a protocol error is not retried
tryAutoconnect(i, r) ==
  CASE r = "ok" -> "done"
    [] r = "DialError" ->
         IF status = StatDisabled THEN "stopped"
         ELSE IF attempts[i] + 1 >= MaxAttempts THEN "gaveup"
         ELSE "conn"
    [] OTHER -> "failed"

\* return r from connect(): the deferred connectLock.Unlock runs, and a
\* reconnect goroutine is back in tryAutoconnect
Return(t, r) ==
  /\ cpc' = [cpc EXCEPT ![t] = "idle"]
  /\ cres' = [cres EXCEPT ![t] = r]
  /\ connectLock' = NoThread
  /\ apc' = [i \in Gens |-> IF t = Reconn(i) THEN tryAutoconnect(i, r) ELSE apc[i]]
  /\ attempts' = [i \in Gens |-> IF t = Reconn(i) THEN attempts[i] + 1 ELSE attempts[i]]

\* connect() goes on to position pc, holding connectLock
Goto(t, pc) ==
  /\ cpc' = [cpc EXCEPT ![t] = pc]
  /\ cres' = [cres EXCEPT ![t] = "none"]
  /\ connectLock' = t
  /\ UNCHANGED reconnVars

\* who may call connect(): the user at any time, a reconnect goroutine from
\* within tryAutoconnect
Calling(t) ==
  \/ t = User
  \/ \E i \in Gens : t = Reconn(i) /\ apc[i] = "conn"

\* a connect() that does not look at the status
ConnectEnter_NoCheck(t) ==
  /\ cpc[t] = "idle"
  /\ Calling(t)
  /\ connectLock = NoThread
  /\ \/ Goto(t, "dial")
     \/ Return(t, "IncompatibleProtocol")
  /\ afterDisable' = IF t = User THEN FALSE ELSE afterDisable
  /\ UNCHANGED <<status, autoconnect, disVars, req, nextReq>>
  /\ UNCHANGED <<connVars, readerVars, serverVars, sessVars>>

\* connect.go:15-23  take connectLock; already connected: return nil;
\* otherwise clt.verifyProtocolVersion(), whose error is returned
ConnectEnter(t) ==
  /\ cpc[t] = "idle"
  /\ Calling(t)
  /\ connectLock = NoThread
  /\ IF status = StatConnected
       THEN Return(t, "ok")
       ELSE \/ Goto(t, "dial")
            \/ Return(t, "IncompatibleProtocol")
  /\ afterDisable' = IF t = User THEN FALSE ELSE afterDisable
  /\ UNCHANGED <<status, autoconnect, disVars, req, nextReq>>
  /\ UNCHANGED <<connVars, readerVars, serverVars, sessVars>>

\* a connect() that stores StatConnected before it knows the dial's outcome
ConnectDial_StoreFirst(t) ==
  /\ cpc[t] = "dial"
  /\ status' = StatConnected
  /\ \/ /\ connGen < MaxDials
        /\ Dialed
        /\ rpc' = [rpc EXCEPT ![connGen + 1] = "reading"]
        /\ rgen' = [rgen EXCEPT ![connGen + 1] = connGen + 1]
        /\ Goto(t, "store")
        /\ UNCHANGED <<rmsg, hookDisc, srvClosed, nextKey>>
     \/ /\ Return(t, "DialError")
        /\ UNCHANGED <<connVars, readerVars, serverVars>>
  /\ UNCHANGED <<autoconnect, disVars, req, nextReq, afterDisable>>
  /\ UNCHANGED sessVars

\* connect.go:25-65  clt.conn.Dial, and on success the reader goroutine is
\* started
ConnectDial(t) ==
  /\ cpc[t] = "dial"
  /\ \/ /\ connGen < MaxDials
        /\ Dialed
        /\ rpc' = [rpc EXCEPT ![connGen + 1] = "reading"]
        /\ rgen' = [rgen EXCEPT ![connGen + 1] = connGen + 1]
        /\ Goto(t, "store")
        /\ UNCHANGED <<rmsg, hookDisc, srvClosed, nextKey>>
     \/ /\ Return(t, "DialError")
        /\ UNCHANGED <<connVars, readerVars, serverVars>>
  /\ UNCHANGED <<status, autoconnect, disVars, req, nextReq, afterDisable>>
  /\ UNCHANGED sessVars

\* connect.go:67  atomic.StoreInt32(&clt.status, StatConnected)
ConnectStore(t) ==
  /\ cpc[t] = "store"
  /\ status' = StatConnected
  /\ Goto(t, "session")
  /\ UNCHANGED <<autoconnect, disVars, req, nextReq, afterDisable>>
  /\ UNCHANGED <<connVars, readerVars, serverVars, sessVars>>

\* a connect() that returns at line 73 without the RUnlock of line 72
ConnectSession_NoRUnlock(t) ==
  /\ cpc[t] = "session"
  /\ sessionLock = NoThread
  /\ IF session = NoSession
       THEN /\ Return(t, "ok")
            /\ sessionLock' = t
            /\ UNCHANGED <<req, srvGot>>
       ELSE /\ req' = [req EXCEPT ![RestoreId(connGen)] =
                         [NoEntry EXCEPT !.st = "pending", !.key = session]]
            /\ srvGot' = Written(RestoreId(connGen))
            /\ sessionLock' = sessionLock
            /\ Goto(t, "wait")
  /\ UNCHANGED <<status, autoconnect, disVars, nextReq, afterDisable>>
  /\ UNCHANGED <<connVars, readerVars, session, hookClosed>>
  /\ UNCHANGED <<srvSess, srvHow, srvClosed, nextKey>>

\* a connect() that requests a session restoration whether or not a session
\* is stored
ConnectSession_Always(t) ==
  /\ cpc[t] = "session"
  /\ sessionLock = NoThread
  /\ req' = [req EXCEPT ![RestoreId(connGen)] =
               [NoEntry EXCEPT !.st = "pending", !.key = session]]
  /\ srvGot' = Written(RestoreId(connGen))
  /\ Goto(t, "wait")
  /\ UNCHANGED <<status, autoconnect, disVars, nextReq, afterDisable>>
  /\ UNCHANGED <<connVars, readerVars, sessVars>>
  /\ UNCHANGED <<srvSess, srvHow, srvClosed, nextKey>>

\* a connect() whose restoration request is written without a pending entry
\* (and so without a timer) in the request tracker
ConnectSession_Unregistered(t) ==
  /\ cpc[t] = "session"
  /\ sessionLock = NoThread
  /\ IF session = NoSession
       THEN /\ Return(t, "ok")
            /\ UNCHANGED <<req, srvGot>>
       ELSE /\ req' = req
            /\ srvGot' = Written(RestoreId(connGen))
            /\ Goto(t, "wait")
  /\ UNCHANGED <<status, autoconnect, disVars, nextReq, afterDisable>>
  /\ UNCHANGED <<connVars, readerVars, sessVars>>
  /\ UNCHANGED <<srvSess, srvHow, srvClosed, nextKey>>

\* connect.go:70-79  read the session key under sessionLock, which is
\* released again at line 72 or 76; without a session return nil, with one
\* send the session restoration request and await its outcome
ConnectSession(t) ==
  /\ cpc[t] = "session"
  /\ sessionLock = NoThread
  /\ IF session = NoSession
       THEN /\ Return(t, "ok")
            /\ UNCHANGED <<req, srvGot>>
       ELSE /\ req' = [req EXCEPT ![RestoreId(connGen)] =
                         [NoEntry EXCEPT !.st = "pending", !.key = session]]
            /\ srvGot' = Written(RestoreId(connGen))
            /\ Goto(t, "wait")
  /\ UNCHANGED <<status, autoconnect, disVars, nextReq, afterDisable>>
  /\ UNCHANGED <<connVars, readerVars, sessVars>>
  /\ UNCHANGED <<srvSess, srvHow, srvClosed, nextKey>>

\* a connect() that keeps the session when its restoration failed
ConnectRestored_KeepSession(t) ==
  /\ cpc[t] = "wait"
  /\ req[RestoreId(connGen)].st \in {"replied", "failed", "timeout"}
  /\ sessionLock = NoThread
  /\ session' = IF req[RestoreId(connGen)].st = "replied"
                  THEN req[RestoreId(connGen)].val
                  ELSE session
  /\ Return(t, "ok")
  /\ UNCHANGED <<status, autoconnect, disVars, req, nextReq, afterDisable>>
  /\ UNCHANGED <<connVars, readerVars, serverVars>>
  /\ UNCHANGED <<hookClosed, sessionLock>>

\* connect.go:79-95  requestSessionRestoration returned: on an error the
\* session is reset, otherwise the restored session is stored, under
\* sessionLock (lines 86-88, 92-94); nil either way
ConnectRestored(t) ==
  /\ cpc[t] = "wait"
  /\ req[RestoreId(connGen)].st \in {"replied", "failed", "timeout"}
  /\ sessionLock = NoThread
  /\ session' = IF req[RestoreId(connGen)].st = "replied"
                  THEN req[RestoreId(connGen)].val
                  ELSE NoSession
  /\ Return(t, "ok")
  /\ UNCHANGED <<status, autoconnect, disVars, req, nextReq, afterDisable>>
  /\ UNCHANGED <<connVars, readerVars, serverVars>>
  /\ UNCHANGED <<hookClosed, sessionLock>>

\* the next step of a connect() that holds connectLock
ConnectStep(t) ==
  \/ ConnectDial(t)
  \/ ConnectStore(t)
  \/ ConnectSession(t)
  \/ ConnectRestored(t)

(* --------------------------- request tracker -------------------------- *)

\* a complete() that delivers without looking the pending entry up
Complete_NoLookup(id, m) ==
  [req EXCEPT ![id] = [@ EXCEPT !.st = IF m.ok THEN "replied" ELSE "failed",
                                !.val = m.key,
                                !.from = m.id,
                                !.n = @ + 1]]

\* complete(id, payload_or_error): look the pending entry up and remove it;
\* absent (already completed or timed out), do nothing
Complete(id, m) ==
  IF req[id].st = "pending"
    THEN [req EXCEPT ![id] = [@ EXCEPT !.st = IF m.ok THEN "replied" ELSE "failed",
                                       !.val = m.key,
                                       !.from = m.id,
                                       !.n = @ + 1]]
    ELSE req

\* the per-request timer: removes the entry, if it is still there, and
\* completes it with Timeout
Expire(id) ==
  [req EXCEPT ![id] = [@ EXCEPT !.st = "timeout", !.n = @ + 1,
                                !.lost = ~ConnOpen]]

\* request(name, payload): register a pending entry under a fresh id and
\* write the frame; the caller then waits for the entry's completion.  A
\* write on a closed connection returns an error, which completes the entry
\* at once; a write on a connection that failed unnoticed may do either
Request ==
  /\ nextReq <= MaxReqs
  /\ \E werr \in BOOLEAN :
       /\ werr => ~ConnOpen
       /\ ~werr => connGen > 0 /\ sock[connGen] \in {"open", "failed"}
       /\ req' = [req EXCEPT ![UserId(nextReq)] =
                    IF werr THEN [NoEntry EXCEPT !.st = "error", !.n = 1]
                            ELSE [NoEntry EXCEPT !.st = "pending"]]
       /\ srvGot' = IF werr THEN srvGot ELSE Written(UserId(nextReq))
  /\ nextReq' = nextReq + 1
  /\ UNCHANGED <<status, autoconnect, disVars, afterDisable>>
  /\ UNCHANGED <<connVars, connectVars, readerVars, reconnVars, sessVars>>
  /\ UNCHANGED <<srvSess, srvHow, srvClosed, nextKey>>

\* a timer that only runs while the connection is open
Timeout_WhileConnected(id) ==
  /\ ConnOpen
  /\ req[id].st = "pending"
  /\ req' = Expire(id)
  /\ UNCHANGED <<status, autoconnect, disVars, nextReq, afterDisable>>
  /\ UNCHANGED <<connVars, connectVars, readerVars, reconnVars, serverVars,
                 sessVars>>

\* the deadline of a pending request elapses
Timeout(id) ==
  /\ req[id].st = "pending"
  /\ req' = Expire(id)
  /\ UNCHANGED <<status, autoconnect, disVars, nextReq, afterDisable>>
  /\ UNCHANGED <<connVars, connectVars, readerVars, reconnVars, serverVars,
                 sessVars>>

(* --------------------------- reader goroutine ------------------------- *)

\* connect.go:33  clt.conn.Read() returns a frame
ReadMsg(i) ==
  /\ rpc[i] = "reading"
  /\ rgen[i] = connGen
  /\ ConnOpen
  /\ inbox # <<>>
  /\ rmsg' = [rmsg EXCEPT ![i] = Head(inbox)]
  /\ inbox' = Tail(inbox)
  /\ rpc' = [rpc EXCEPT ![i] = "handling"]
  /\ UNCHANGED <<status, autoconnect, disVars, req, nextReq, afterDisable>>
  /\ UNCHANGED <<connGen, sock, rgen, hookDisc>>
  /\ UNCHANGED <<connectVars, reconnVars, serverVars, sessVars>>

\* connect.go:61-64  clt.handleMessage(message): a reply goes to the request
\* tracker, a session-created frame stores the session, a session-closed
\* frame clears it and calls OnSessionClosed; the loop then calls Read on
\* clt.conn as it is now
HandleMessage(i) ==
  /\ rpc[i] = "handling"
  /\ rmsg[i].type \in {"SessionCreated", "SessionClosed"} => sessionLock = NoThread
  /\ req' = IF rmsg[i].type = "Reply" THEN Complete(rmsg[i].id, rmsg[i]) ELSE req
  /\ session' = CASE rmsg[i].type = "SessionCreated" -> rmsg[i].key
                  [] rmsg[i].type = "SessionClosed" -> NoSession
                  [] OTHER -> session
  /\ hookClosed' = IF rmsg[i].type = "SessionClosed"
                     THEN [hookClosed EXCEPT ![rmsg[i].key] = @ + 1]
                     ELSE hookClosed
  /\ rmsg' = [rmsg EXCEPT ![i] = NoMsg]
  /\ rgen' = [rgen EXCEPT ![i] = connGen]
  /\ rpc' = [rpc EXCEPT ![i] = "reading"]
  /\ UNCHANGED <<status, autoconnect, disVars, nextReq, afterDisable>>
  /\ UNCHANGED <<connVars, hookDisc, sessionLock>>
  /\ UNCHANGED <<connectVars, reconnVars, serverVars>>

\* connect.go:33-41  clt.conn.Read() returns an error; the status is loaded
ReadErr(i) ==
  /\ rpc[i] = "reading"
  /\ sock[rgen[i]] # "open"
  /\ rpc' = [rpc EXCEPT ![i] = IF status = StatConnected THEN "store" ELSE "hook"]
  /\ UNCHANGED <<status, autoconnect, disVars, req, nextReq, afterDisable>>
  /\ UNCHANGED <<connVars, rgen, rmsg, hookDisc>>
  /\ UNCHANGED <<connectVars, reconnVars, serverVars, sessVars>>

\* connect.go:42  atomic.StoreInt32(&clt.status, StatDisconnected)
ReaderStore(i) ==
  /\ rpc[i] = "store"
  /\ status' = StatDisconnected
  /\ rpc' = [rpc EXCEPT ![i] = "hook"]
  /\ UNCHANGED <<autoconnect, disVars, req, nextReq, afterDisable>>
  /\ UNCHANGED <<connVars, rgen, rmsg, hookDisc>>
  /\ UNCHANGED <<connectVars, reconnVars, serverVars, sessVars>>

\* connect.go:46  clt.hooks.OnDisconnected()
ReaderHook(i) ==
  /\ rpc[i] = "hook"
  /\ hookDisc' = [hookDisc EXCEPT ![i] = @ + 1]
  /\ rpc' = [rpc EXCEPT ![i] = "spawn"]
  /\ UNCHANGED <<status, autoconnect, disVars, req, nextReq, afterDisable>>
  /\ UNCHANGED <<connVars, rgen, rmsg>>
  /\ UNCHANGED <<connectVars, reconnVars, serverVars, sessVars>>

\* connect.go:50-58  go func() { ... }() and return
ReaderSpawn(i) ==
  /\ rpc[i] = "spawn"
  /\ apc' = [apc EXCEPT ![i] = "start"]
  /\ rpc' = [rpc EXCEPT ![i] = "close"]
  /\ UNCHANGED <<status, autoconnect, disVars, req, nextReq, afterDisable, attempts>>
  /\ UNCHANGED <<connVars, rgen, rmsg, hookDisc>>
  /\ UNCHANGED <<connectVars, serverVars, sessVars>>

\* a deferred close that disables the client as well
ReaderClose_Disables(i) ==
  /\ rpc[i] = "close"
  /\ sock' = CloseSock("closedR")
  /\ status' = StatDisabled
  /\ rpc' = [rpc EXCEPT ![i] = "exited"]
  /\ UNCHANGED <<autoconnect, disVars, req, nextReq, afterDisable>>
  /\ UNCHANGED <<connGen, inbox, rgen, rmsg, hookDisc>>
  /\ UNCHANGED <<connectVars, reconnVars, serverVars, sessVars>>

\* connect.go:31  defer clt.close()
ReaderClose(i) ==
  /\ rpc[i] = "close"
  /\ sock' = CloseSock("closedR")
  /\ rpc' = [rpc EXCEPT ![i] = "exited"]
  /\ UNCHANGED <<status, autoconnect, disVars, req, nextReq, afterDisable>>
  /\ UNCHANGED <<connGen, inbox, rgen, rmsg, hookDisc>>
  /\ UNCHANGED <<connectVars, reconnVars, serverVars, sessVars>>

(* -------------------------- reconnect goroutine ----------------------- *)

\* connect.go:51-52  if clt.autoconnect && status != StatDisabled, enter
\* tryAutoconnect(0), which calls connect()
ReconnStart(i) ==
  /\ apc[i] = "start"
  /\ apc' = [apc EXCEPT ![i] =
               IF autoconnect /\ status # StatDisabled THEN "conn" ELSE "skip"]
  /\ UNCHANGED <<status, autoconnect, disVars, req, nextReq, afterDisable, attempts>>
  /\ UNCHANGED <<connVars, connectVars, readerVars, serverVars, sessVars>>

(* ------------------------------- disable ------------------------------ *)

\* disable() / close(): set the state to Disabled
DisableStore ==
  /\ dpc = "idle"
  /\ disables < MaxDisables
  /\ disables' = disables + 1
  /\ status' = StatDisabled
  /\ dpc' = "close"
  /\ UNCHANGED <<autoconnect, req, nextReq, afterDisable>>
  /\ UNCHANGED <<connVars, connectVars, readerVars, reconnVars, serverVars,
                 sessVars>>

\* disable() / close(): close the transport
DisableClose ==
  /\ dpc = "close"
  /\ sock' = CloseSock("closedD")
  /\ dpc' = "idle"
  /\ afterDisable' = TRUE
  /\ UNCHANGED <<status, autoconnect, disables, req, nextReq, connGen, inbox>>
  /\ UNCHANGED <<connectVars, readerVars, reconnVars, serverVars, sessVars>>

(* ------------------------- network and server ------------------------- *)

\* the network breaks the connection
NetFail ==
  /\ ConnOpen
  /\ sock' = [sock EXCEPT ![connGen] = "failed"]
  /\ UNCHANGED <<status, autoconnect, disVars, req, nextReq, afterDisable>>
  /\ UNCHANGED <<connGen, inbox>>
  /\ UNCHANGED <<connectVars, readerVars, reconnVars, serverVars, sessVars>>

Send(m) ==
  /\ ConnOpen
  /\ Len(inbox) < MaxInbox
  /\ inbox' = Append(inbox, m)

\* the server answers a request it received; it accepts a session
\* restoration only for a session it has not closed
ServerReply(id, ok) ==
  /\ id \in srvGot
  /\ (ok /\ id[1] = "r") => req[id].key \notin srvClosed
  /\ ~ok => id[1] = "r"
  /\ Send([type |-> "Reply", id |-> id, ok |-> ok,
           key |-> IF id[1] = "r" /\ ok THEN req[id].key ELSE NoSession])
  /\ srvGot' = srvGot \ {id}
  /\ srvSess' = IF id[1] = "r" /\ ok THEN req[id].key ELSE srvSess
  /\ srvHow' = IF id[1] = "r" /\ ok /\ srvSess = NoSession THEN "restored" ELSE srvHow
  /\ UNCHANGED <<status, autoconnect, disVars, req, nextReq, afterDisable>>
  /\ UNCHANGED <<connGen, sock, srvClosed, nextKey>>
  /\ UNCHANGED <<connectVars, readerVars, reconnVars, sessVars>>

\* the server creates a session for the connected client
ServerCreateSession ==
  /\ srvSess = NoSession
  /\ nextKey <= MaxSessions
  /\ Send([type |-> "SessionCreated", id |-> NoReq, ok |-> TRUE, key |-> nextKey])
  /\ srvSess' = nextKey
  /\ nextKey' = nextKey + 1
  /\ UNCHANGED <<status, autoconnect, disVars, req, nextReq, afterDisable>>
  /\ srvHow' = "created"
  /\ UNCHANGED <<connGen, sock, srvGot, srvClosed>>
  /\ UNCHANGED <<connectVars, readerVars, reconnVars, sessVars>>

\* the server closes the session of the connected client
ServerCloseSession ==
  /\ srvSess # NoSession
  /\ Send([type |-> "SessionClosed", id |-> NoReq, ok |-> TRUE, key |-> srvSess])
  /\ srvClosed' = srvClosed \cup {srvSess}
  /\ srvSess' = NoSession
  /\ srvHow' = "none"
  /\ UNCHANGED <<status, autoconnect, disVars, req, nextReq, afterDisable>>
  /\ UNCHANGED <<connGen, sock, srvGot, nextKey>>
  /\ UNCHANGED <<connectVars, readerVars, reconnVars, sessVars>>

(* ---------------------------- specification --------------------------- *)

Next ==
  \/ \E t \in Threads : ConnectEnter(t)
  \/ \E t \in Threads : ConnectDial(t)
  \/ \E t \in Threads : ConnectStore(t)
  \/ \E t \in Threads : ConnectSession(t)
  \/ \E t \in Threads : ConnectRestored(t)
  \/ \E i \in Gens : ReadMsg(i)
  \/ \E i \in Gens : HandleMessage(i)
  \/ \E i \in Gens : ReadErr(i)
  \/ \E i \in Gens : ReaderStore(i)
  \/ \E i \in Gens : ReaderHook(i)
  \/ \E i \in Gens : ReaderSpawn(i)
  \/ \E i \in Gens : ReaderClose(i)
  \/ \E i \in Gens : ReconnStart(i)
  \/ DisableStore
  \/ DisableClose
  \/ NetFail
  \/ \E id \in ReqIds : Timeout(id)
  \/ \E id \in ReqIds, ok \in BOOLEAN : ServerReply(id, ok)
  \/ ServerCreateSession
  \/ ServerCloseSession

\* the connection life cycle: connect, the reader and reconnect goroutines,
\* disable, session restoration, the network and the server
Spec == Init /\ [][Next]_vars

\* the request tracker under concurrent request() calls, on a client that
\* connects, loses its connection and reconnects
NextReq ==
  \/ \E t \in Threads : ConnectEnter(t)
  \/ \E t \in Threads : ConnectDial(t)
  \/ \E t \in Threads : ConnectStore(t)
  \/ \E t \in Threads : ConnectSession(t)
  \/ \E i \in Gens : ReadMsg(i)
  \/ \E i \in Gens : HandleMessage(i)
  \/ \E i \in Gens : ReadErr(i)
  \/ \E i \in Gens : ReaderStore(i)
  \/ \E i \in Gens : ReaderHook(i)
  \/ \E i \in Gens : ReaderSpawn(i)
  \/ \E i \in Gens : ReaderClose(i)
  \/ \E i \in Gens : ReconnStart(i)
  \/ NetFail
  \/ Request
  \/ \E id \in ReqIds : Timeout(id)
  \/ \E id \in ReqIds : ServerReply(id, TRUE)

ReqSpec == Init /\ [][NextReq]_vars

\* every request has its own timer, which runs whatever the rest does
ReqFairSpec == ReqSpec /\ \A id \in ReqIds : WF_vars(Timeout(id))


\* connect(), the reader and reconnect goroutines and session restoration
\* on a client that is not disabled
NextLive ==
  \/ \E t \in Threads : ConnectEnter(t)
  \/ \E t \in Threads : ConnectDial(t)
  \/ \E t \in Threads : ConnectStore(t)
  \/ \E t \in Threads : ConnectSession(t)
  \/ \E t \in Threads : ConnectRestored(t)
  \/ \E i \in Gens : ReadMsg(i)
  \/ \E i \in Gens : HandleMessage(i)
  \/ \E i \in Gens : ReadErr(i)
  \/ \E i \in Gens : ReaderStore(i)
  \/ \E i \in Gens : ReaderHook(i)
  \/ \E i \in Gens : ReaderSpawn(i)
  \/ \E i \in Gens : ReaderClose(i)
  \/ \E i \in Gens : ReconnStart(i)
  \/ NetFail
  \/ \E id \in ReqIds : Timeout(id)
  \/ \E id \in ReqIds, ok \in BOOLEAN : ServerReply(id, ok)
  \/ ServerCreateSession

\* protocol verification and the dial terminate and a goroutine that can run
\* does run, so a connect() holding connectLock takes its next step; every
\* request's timer runs; and sync.Mutex hands connectLock to a goroutine
\* that keeps waiting for it, so a waiting reconnect goroutine gets it
LiveSpec ==
  /\ Init /\ [][NextLive]_vars
  /\ \A t \in Threads : WF_vars(ConnectStep(t))
  /\ \A id \in ReqIds : WF_vars(Timeout(id))
  /\ \A i \in Gens : SF_vars(ConnectEnter(Reconn(i)))


(* ------------------------------- claims ------------------------------- *)

\* what a connect() that only returns must leave alone: the status, the
\* session, the transport, the reader goroutines and the requests sent
ConnectFrame == UNCHANGED <<status, session, connVars, rpc, rgen, req, srvGot>>

\* C1: connect() is idempotent. A thread that calls connect() while the
\* status is Connected gets nil at once: it does not go on to verify or dial,
\* returns no error, and the step in which it returns changes neither the
\* status, the session, the transport, the reader goroutines nor the requests.
C1_Idempotent ==
  [][\A t \in Threads :
       (cpc[t] = "idle" /\ status = StatConnected)
         => /\ cpc'[t] = "idle"
            /\ cres'[t] \in {cres[t], "ok"}
            /\ cres'[t] # cres[t] => ConnectFrame /\ connectLock' = connectLock]_vars

\* a reconnect goroutine of reader i got nil from connect() and no dial
\* followed the i-th: its connect() found the status Connected
C1_Witness ==
  \E i \in Gens : apc[i] = "done" /\ connGen = i /\ status = StatConnected

\* C2: when protocol verification or the dial fails, connect() returns that
\* error and nothing else happens: the step that returns it releases
\* connectLock and changes neither the status, the session, the transport,
\* the reader goroutines nor the requests; a protocol error is returned
\* before any dial.
C2_ErrorReturn ==
  [][\A t \in Threads :
       (cres'[t] \in {"IncompatibleProtocol", "DialError"}
          /\ (cres'[t] # cres[t] \/ cpc'[t] # cpc[t]))
         => /\ cpc'[t] = "idle"
            /\ connectLock' = NoThread
            /\ ConnectFrame
            /\ cres'[t] = "IncompatibleProtocol" => cpc[t] = "idle"
            /\ cres'[t] = "DialError" => cpc[t] = "dial"]_vars

\* the user's connect() returned a dial error, a reconnect goroutine's a
\* protocol error, and connectLock is free
C2_Witness ==
  /\ cres[User] = "DialError"
  /\ connectLock = NoThread
  /\ \E i \in Gens : cres[Reconn(i)] = "IncompatibleProtocol"

\* C3: a failed session restoration is not fatal. When the restoration
\* request of a connect() ends rejected, with an error or timed out, that
\* connect() returns nil and the session is cleared.
C3_RestorationFailure ==
  [][\A t \in Threads :
       (cpc[t] = "wait" /\ cpc'[t] # "wait"
          /\ req[RestoreId(connGen)].st \in {"failed", "timeout"})
         => /\ cpc'[t] = "idle"
            /\ cres'[t] = "ok"
            /\ session' = NoSession
            /\ connectLock' = NoThread]_vars

\* the restoration request of the latest connection failed, and the connect()
\* that sent it has returned
C3_Witness ==
  /\ connGen > 0
  /\ req[RestoreId(connGen)].st \in {"failed", "timeout"}
  /\ connectLock = NoThread
  /\ session = NoSession


\* C4: after a transport failure with auto-reconnect on, a session present
\* before the failure is restored if the server accepts the restoration key.
\* Stated of the reconnect goroutine's connect(): the client was never
\* disabled, the network did not break the new connection, the server
\* accepted the restoration on it and still holds the session, and the
\* request did not time out while a connection was open; then the session
\* store holds the restored session when that connect() returns.
C4_SessionRestored ==
  [][\A i \in Gens :
       (/\ cpc[Reconn(i)] = "wait" /\ cpc'[Reconn(i)] = "idle"
        /\ autoconnect /\ disables = 0
        /\ sock[connGen] # "failed"
        /\ srvHow = "restored" /\ srvSess = req[RestoreId(connGen)].key
        /\ req[RestoreId(connGen)].st = "timeout" => req[RestoreId(connGen)].lost)
         => session' = srvSess]_vars

\* C5: once disable() has completed, and until the user calls connect()
\* again, nothing dials and nothing sets the status to Connected or
\* Disconnected.
C5_DisableStops ==
  [][afterDisable =>
       /\ connGen' = connGen
       /\ status' # status => status' = StatDisabled]_vars

\* C6: a reader goroutine whose Read failed because disable() closed its
\* connection exits without a reconnection attempt: its reconnect goroutine
\* never enters tryAutoconnect.
C6_NoReconnectAfterDisable ==
  \A i \in Gens :
    (rpc[i] \in {"store", "hook", "spawn", "close", "exited"}
       /\ sock[rgen[i]] = "closedD")
      => apc[i] \in {"none", "start", "skip"}

\* C7: OnSessionClosed fires exactly once for a session the server closed,
\* and once the client has handled the closure the session store does not
\* hold that session again.
C7_SessionClosedOnce ==
  \A k \in Keys :
    /\ hookClosed[k] <= 1
    /\ hookClosed[k] > 0 => session # k

\* C10: no two reader goroutines are in Read on the same open connection.
C10_OneReader ==
  \A i, j \in Gens :
    (i # j /\ rpc[i] = "reading" /\ rpc[j] = "reading" /\ rgen[i] = rgen[j])
      => sock[rgen[i]] # "open"


UserIds == {UserId(n) : n \in 1..MaxReqs}

\* C8: every request is completed at most once, by a reply or by its timer
\* and never by both, and a request completed by a reply got the reply that
\* carries its own id.
C8_ExactlyOnce ==
  \A id \in ReqIds :
    /\ req[id].n <= 1
    /\ req[id].st \in {"unused", "pending"} => req[id].n = 0
    /\ req[id].st \in {"replied", "failed"} => req[id].n = 1 /\ req[id].from = id
    /\ req[id].st \in {"timeout", "error"} =>
         req[id].n = 1 /\ req[id].from = NoReq

\* of two concurrent requests one was answered and the other timed out
C8_Witness ==
  /\ req[UserId(1)].st = "timeout"
  /\ req[UserId(2)].st = "replied"
  /\ \E i \in Gens : rmsg[i].id = UserId(1)

\* the reply of request id can no longer reach the client: no reader holds
\* it, and the connection is gone or the server neither has the request nor
\* has sent the reply
Lost(id) ==
  /\ \A i \in Gens : rmsg[i].id # id
  /\ \/ ~ConnOpen
     \/ /\ id \notin srvGot
        /\ \A k \in 1..Len(inbox) : inbox[k].id # id

\* C9: a request never hangs: a pending request is eventually completed, and
\* one whose reply can no longer arrive (the connection was lost, the reader
\* goroutine has exited) is completed with Timeout.
C9_TimeoutResolves ==
  \A id \in UserIds :
    /\ (req[id].st = "pending") ~> (req[id].st # "pending")
    /\ (req[id].st = "pending" /\ Lost(id)) ~> (req[id].st = "timeout")

\* a request timed out after its connection was lost and its reader exited
C9_Witness ==
  /\ req[UserId(1)].st = "timeout"
  /\ req[UserId(1)].lost
  /\ rpc[1] = "exited"

\* C11: a reader goroutine never overwrites Disabled with Disconnected: no
\* step takes the status from Disabled to Disconnected, however disable()
\* interleaves with the load and the store of connect.go:41-42.
C11_NoOverwriteDisabled ==
  [][status = StatDisabled => status' # StatDisconnected]_vars

\* C12: a failed reader goroutine releases its socket before the reconnect
\* goroutine it spawned dials a new one: on a client that was never
\* disabled, when the reader's deferred close runs after its reconnect
\* goroutine's connect() has dialed, it does not close that new connection.
C12_CloseBeforeDial ==
  [][\A i \in Gens :
       (/\ rpc[i] = "close" /\ rpc'[i] = "exited"
        /\ disables = 0
        /\ cpc[Reconn(i)] \in {"store", "session", "wait"})
         => sock' = sock]_vars

\* C13: a reader goroutine that ends on a read error calls OnDisconnected
\* exactly once, after the transition of the status to Disconnected and
\* before it starts the reconnect goroutine: unless a connection was dialed
\* since, the status is not Connected any more when the hook is called; and
\* the read error reaches no caller: the reader's steps touch no connect() call, and a
\* connect() that has dialed returns nil.
C13_HookOnce ==
  [][/\ \A i \in Gens :
          /\ hookDisc'[i] # hookDisc[i]
               => /\ hookDisc[i] = 0 /\ hookDisc'[i] = 1
                  /\ rpc[i] = "hook" /\ apc[i] = "none"
          /\ (rpc[i] = "store" /\ rpc'[i] # "store")
               => hookDisc'[i] = 0 /\ status' = StatDisconnected
          /\ (hookDisc'[i] # hookDisc[i] /\ connGen = i) => status # StatConnected
          /\ (apc[i] = "none" /\ apc'[i] # "none") => hookDisc[i] = 1
          /\ rpc'[i] = "exited" => hookDisc'[i] = 1
          /\ (rpc'[i] # rpc[i] /\ rpc[i] # "none") => UNCHANGED <<cpc, cres>>
     /\ \A t \in Threads :
          (cpc[t] \in {"store", "session", "wait"} /\ cpc'[t] = "idle")
            => cres'[t] = "ok"]_vars

\* with autoconnect off and the client never disabled, reader i has handled
\* its read error, no connection was dialed after the i-th, and the connect()
\* that dialed it has returned
FailedNoAutoconnect(i) ==
  /\ ~autoconnect /\ disables = 0
  /\ rpc[i] \in {"spawn", "close", "exited"}
  /\ connGen = i /\ cpc[User] = "idle"

\* C14: the reconnect goroutine started after a read failure attempts a
\* reconnection only if autoconnect is on and the status is not Disabled
\* when it runs, and a reconnect goroutine calls connect() only from there;
\* with autoconnect off a transport failure leaves the client Disconnected,
\* and nothing dials, until the user calls connect().
C14_ReconnectOnlyIf ==
  [][/\ \A i \in Gens :
          /\ (apc[i] = "start" /\ apc'[i] # "start")
               => apc'[i] = IF autoconnect /\ status # StatDisabled
                              THEN "conn" ELSE "skip"
          /\ cpc'[Reconn(i)] # cpc[Reconn(i)] => apc[i] = "conn"
          /\ FailedNoAutoconnect(i) => status = StatDisconnected
     /\ (~autoconnect /\ connGen' # connGen) => connectLock = User]_vars

C16_NeverWaits ==
  \A t \in Threads : cpc[t] # "idle" => ENABLED ConnectStep(t)

\* C16 as amended: connect() blocks only for dialing, protocol verification
\* and the outcome of the session restoration request it sent: outside the
\* wait for that outcome it can always take its next step by itself, and in
\* that wait either the outcome is there or the request's timer is running.
C16_BlocksOnlyForRestoration ==
  \A t \in Threads :
    /\ cpc[t] \in {"dial", "store", "session"} => ENABLED ConnectStep(t)
    /\ cpc[t] = "wait"
         => \/ ENABLED ConnectRestored(t)
            \/ ENABLED Timeout(RestoreId(connGen))

\* the user's connect() waited for its session restoration and has returned
\* nil, and the connection lives on with its reader goroutine in Read
C16_Witness ==
  /\ cpc[User] = "idle" /\ cres[User] = "ok" /\ connectLock = NoThread
  /\ connGen > 0 /\ req[RestoreId(connGen)].st = "replied"
  /\ ConnOpen /\ status = StatConnected
  /\ \E i \in Gens : rpc[i] = "reading" /\ rgen[i] = connGen

\* C17: session restoration is attempted only if a session is stored. A
\* connect() that finds no session at connect.go:71 returns nil, sends
\* nothing and leaves the session nil; one that finds a session sends one
\* restoration request, the only one of its connection, carrying the stored
\* key, and waits for its outcome.
C17_RestoreOnlyIfSession ==
  [][\A t \in Threads :
       (cpc[t] = "session" /\ cpc'[t] # "session")
         => IF session = NoSession
              THEN /\ cpc'[t] = "idle" /\ cres'[t] = "ok"
                   /\ req' = req /\ srvGot' = srvGot
                   /\ session' = NoSession
              ELSE /\ cpc'[t] = "wait"
                   /\ req[RestoreId(connGen)].st = "unused"
                   /\ req'[RestoreId(connGen)].st = "pending"
                   /\ req'[RestoreId(connGen)].key = session
                   /\ \A id \in ReqIds \ {RestoreId(connGen)} : req'[id] = req[id]
                   /\ srvGot' \subseteq srvGot \cup {RestoreId(connGen)}
                   /\ ConnOpen => RestoreId(connGen) \in srvGot'
                   /\ session' = session]_vars

\* the first connect() found no session and sent no restoration request; the
\* connect() of the second connection found the session and the server has
\* its restoration request
C17_Witness ==
  /\ connGen = 2
  /\ req[RestoreId(1)].st = "unused"
  /\ req[RestoreId(2)].st = "pending" /\ req[RestoreId(2)].key = session
  /\ session # NoSession
  /\ RestoreId(2) \in srvGot

\* C18: whenever no connect() is in progress and the status is Connected, on
\* a client that was never disabled, a reader goroutine is alive on the
\* connection: it is in Read on it, is handling a frame it read, or has just
\* taken the read error and is about to store Disconnected.
C18_ConnectedHasReader ==
  (connectLock = NoThread /\ status = StatConnected /\ disables = 0)
    => \E i \in Gens :
         \/ rpc[i] = "reading" /\ rgen[i] = connGen
         \/ rpc[i] \in {"handling", "store"}

\* C19: whenever connect() returns nil on a client that was not disabled,
\* the status is Connected at the moment of the return.
C19_ConnectedAtReturn ==
  [][\A t \in Threads :
       (cpc[t] # "idle" /\ cpc'[t] = "idle" /\ cres'[t] = "ok" /\ disables = 0)
         => status' = StatConnected]_vars

\* C20: connect() never deadlocks. A thread that is not in connect() holds
\* neither connectLock nor sessionLock; every connect() in progress returns;
\* and a reconnect goroutine that calls connect(), also while connectLock is
\* held by a connect() that awaits its session restoration, gets through it.
C20_ConnectTerminates ==
  /\ [](\A t \in Threads :
          cpc[t] = "idle" => connectLock # t /\ sessionLock # t)
  /\ \A t \in Threads : (cpc[t] # "idle") ~> (cpc[t] = "idle")
  /\ \A i \in Gens : (apc[i] = "conn") ~> (apc[i] # "conn")

\* the reconnect goroutine of reader 1 waits for connectLock, which the
\* user's connect() holds while it awaits its session restoration
C20_Witness ==
  /\ apc[1] = "conn" /\ cpc[Reconn(1)] = "idle"
  /\ connectLock = User /\ cpc[User] = "wait"
  /\ req[RestoreId(connGen)].st = "pending"

====
